---- MODULE Spec2Model ----
(***************************************************************************)
(* PrintusEjectus: post-processing of a print file (G-code).  A file is    *)
(* read into a list of lines, the X coordinates reached after the first    *)
(* layers are sampled between the start and the end sentinel, their width  *)
(* and mean are computed, and the file is written again with an ejection   *)
(* sequence after the end sentinel.                                        *)
(*                                                                         *)
(* A line is a sequence of characters (one-character strings).  A Python   *)
(* float is an IEEE-754 binary64 value: a record [m, e] standing for       *)
(* m * 2^e with m = 0 or 2^52 <= m < 2^53, m kept as a little-endian       *)
(* sequence of NLimbs limbs in base LimbBase, so that every operation is   *)
(* rounded exactly as the hardware rounds it (to nearest, ties to even).   *)
(***************************************************************************)
EXTENDS Integers, Sequences, FiniteSets, TLC

(***************************************************************************)
(* Multi-limb naturals.                                                    *)
(***************************************************************************)
LimbBase == 32768
LimbBits == 15
NLimbs == 6
MantBits == 53

\* An operator that reads an argument more than once takes its value first:
\* in  CHOOSE r \in {e : a \in {a_}} : TRUE  the argument a_ is carried out
\* once and e reads the value a.

Pow2(k) == IF k = 0 THEN 1 ELSE IF k = 1 THEN 2 ELSE IF k = 2 THEN 4
           ELSE IF k = 3 THEN 8 ELSE IF k = 4 THEN 16 ELSE IF k = 5 THEN 32
           ELSE IF k = 6 THEN 64 ELSE IF k = 7 THEN 128 ELSE IF k = 8 THEN 256
           ELSE IF k = 9 THEN 512 ELSE IF k = 10 THEN 1024
           ELSE IF k = 11 THEN 2048 ELSE IF k = 12 THEN 4096
           ELSE IF k = 13 THEN 8192 ELSE 16384

BigZero == <<0, 0, 0, 0, 0, 0>>

\* for n >= 0
BigFromInt(n_) ==
    CHOOSE r \in {<<n % LimbBase, (n \div LimbBase) % LimbBase,
                    (n \div LimbBase) \div LimbBase, 0, 0, 0>> : n \in {n_}} : TRUE

\* the value of a number known to fit three limbs below 2^31
BigToInt(a_) ==
    CHOOSE r \in {a[1] + LimbBase * a[2] + LimbBase * LimbBase * a[3] :
                  a \in {a_}} : TRUE

RECURSIVE AddCarry(_, _, _)
\* the carry into limb k of a + b
AddCarry(a, b, k) ==
    IF k = 1 THEN 0 ELSE (a[k-1] + b[k-1] + AddCarry(a, b, k-1)) \div LimbBase

AddLimb(a, b, k) == (a[k] + b[k] + AddCarry(a, b, k)) % LimbBase

BigAdd(a_, b_) ==
    CHOOSE r \in {<<AddLimb(a, b, 1), AddLimb(a, b, 2), AddLimb(a, b, 3),
                    AddLimb(a, b, 4), AddLimb(a, b, 5), AddLimb(a, b, 6)>> :
                  a \in {a_}, b \in {b_}} : TRUE

RECURSIVE SubBorrow(_, _, _)
\* the borrow out of limb k of a - b
SubBorrow(a, b, k) ==
    IF k = 1 THEN 0
    ELSE IF a[k-1] - b[k-1] - SubBorrow(a, b, k-1) < 0 THEN 1 ELSE 0

SubLimb(a, b, k) == (a[k] - b[k] - SubBorrow(a, b, k) + LimbBase) % LimbBase

\* a - b for a >= b
BigSub(a_, b_) ==
    CHOOSE r \in {<<SubLimb(a, b, 1), SubLimb(a, b, 2), SubLimb(a, b, 3),
                    SubLimb(a, b, 4), SubLimb(a, b, 5), SubLimb(a, b, 6)>> :
                  a \in {a_}, b \in {b_}} : TRUE

RECURSIVE MulCarry(_, _, _)
\* the carry into limb k of a * s
MulCarry(a, s, k) ==
    IF k = 1 THEN 0 ELSE (a[k-1] * s + MulCarry(a, s, k-1)) \div LimbBase

MulLimb(a, s, k) == (a[k] * s + MulCarry(a, s, k)) % LimbBase

\* a * s for a small s (s <= LimbBase)
BigMulSmall(a_, s_) ==
    CHOOSE r \in {<<MulLimb(a, s, 1), MulLimb(a, s, 2), MulLimb(a, s, 3),
                    MulLimb(a, s, 4), MulLimb(a, s, 5), MulLimb(a, s, 6)>> :
                  a \in {a_}, s \in {s_}} : TRUE

RECURSIVE DivRem(_, _, _)
\* the remainder carried into limb k by the long division of a by d
DivRem(a, d, k) ==
    IF k > NLimbs THEN 0 ELSE (DivRem(a, d, k+1) * LimbBase + a[k]) % d

DivLimb(a, d, k) == (DivRem(a, d, k+1) * LimbBase + a[k]) \div d

\* the quotient of a by a small d (d <= LimbBase); the remainder is DivRem(a, d, 1)
BigDivSmall(a_, d_) ==
    CHOOSE r \in {<<DivLimb(a, d, 1), DivLimb(a, d, 2), DivLimb(a, d, 3),
                    DivLimb(a, d, 4), DivLimb(a, d, 5), DivLimb(a, d, 6)>> :
                  a \in {a_}, d \in {d_}} : TRUE

RECURSIVE BigCmpFrom(_, _, _)
BigCmpFrom(a, b, k) ==
    IF k = 0 THEN 0
    ELSE IF a[k] < b[k] THEN -1
    ELSE IF a[k] > b[k] THEN 1
    ELSE BigCmpFrom(a, b, k-1)

\* -1, 0, 1 as a < b, a = b, a > b
BigCmp(a_, b_) ==
    CHOOSE r \in {BigCmpFrom(a, b, NLimbs) : a \in {a_}, b \in {b_}} : TRUE

RECURSIVE IntBitLen(_)
IntBitLen(n) == IF n = 0 THEN 0 ELSE 1 + IntBitLen(n \div 2)

RECURSIVE TopLimb(_, _)
\* the highest limb of a that is not 0, among the first k
TopLimb(a, k) == IF k = 0 THEN 0 ELSE IF a[k] # 0 THEN k ELSE TopLimb(a, k-1)

BigBitLen(a_) ==
    CHOOSE r \in {(LET t == TopLimb(a, NLimbs)
                   IN  IF t = 0 THEN 0 ELSE (t-1) * LimbBits + IntBitLen(a[t])) :
                  a \in {a_}} : TRUE

ShlLimb(x, ls, k) == IF k > ls THEN x[k-ls] ELSE 0

\* a * 2^s
BigShl(a_, s_) ==
    CHOOSE r \in {<<ShlLimb(x, ls, 1), ShlLimb(x, ls, 2), ShlLimb(x, ls, 3),
                    ShlLimb(x, ls, 4), ShlLimb(x, ls, 5), ShlLimb(x, ls, 6)>> :
                  x \in {BigMulSmall(a_, Pow2(s_ % LimbBits))},
                  ls \in {s_ \div LimbBits}} : TRUE

ShrLimb(a, ls, k) == IF k + ls <= NLimbs THEN a[k+ls] ELSE 0

\* floor(a / 2^s)
BigShr(a_, s_) ==
    CHOOSE r \in {BigDivSmall(<<ShrLimb(a, ls, 1), ShrLimb(a, ls, 2),
                                ShrLimb(a, ls, 3), ShrLimb(a, ls, 4),
                                ShrLimb(a, ls, 5), ShrLimb(a, ls, 6)>>,
                              Pow2(s % LimbBits)) :
                  a \in {a_}, s \in {s_}, ls \in {s_ \div LimbBits}} : TRUE

\* the quotient q is rounded up: c compares the remainder with one half
RoundUp(q, c_, sticky) ==
    \E c \in {c_} :
        \/ c = 1
        \/ c = 0 /\ sticky
        \/ c = 0 /\ ~sticky /\ q[1] % 2 = 1

\* the quotient q = floor(a / 2^s), rounded
RoundedQuotient(a, s, sticky, q_) ==
    CHOOSE r \in {IF RoundUp(q, BigCmp(BigSub(a, BigShl(q, s)),
                                       BigShl(BigFromInt(1), s - 1)), sticky)
                  THEN BigAdd(q, BigFromInt(1)) ELSE q : q \in {q_}} : TRUE

\* a / 2^s rounded to the nearest integer, ties to even; sticky tells that
\* a itself was already truncated from a larger value
BigRoundShr(a_, s_, sticky_) ==
    CHOOSE r \in {IF s = 0 THEN a
                  ELSE RoundedQuotient(a, s, sticky, BigShr(a, s)) :
                  a \in {a_}, s \in {s_}, sticky \in {sticky_}} : TRUE

(***************************************************************************)
(* binary64 arithmetic.                                                    *)
(***************************************************************************)
DZero == [m |-> BigZero, e |-> 0]

\* r * 2^e for a rounded r: rounding up may have carried into one more bit
DCarry(r_, e_) ==
    CHOOSE v \in {IF BigBitLen(r) > MantBits
                  THEN [m |-> BigShr(r, 1), e |-> e + 1]
                  ELSE [m |-> r, e |-> e] : r \in {r_}, e \in {e_}} : TRUE

\* the binary64 nearest to a * 2^e, for a of n bits
DNormOf(a, e, sticky, n_) ==
    CHOOSE r \in {IF n = 0 THEN DZero
                  ELSE IF n > MantBits
                  THEN DCarry(BigRoundShr(a, n - MantBits, sticky),
                              e + n - MantBits)
                  ELSE [m |-> BigShl(a, MantBits - n),
                        e |-> e - (MantBits - n)] : n \in {n_}} : TRUE

\* the binary64 nearest to a * 2^e (sticky: a was truncated from more)
DNorm(a_, e_, sticky_) ==
    CHOOSE r \in {DNormOf(a, e, sticky, BigBitLen(a)) :
                  a \in {a_}, e \in {e_}, sticky \in {sticky_}} : TRUE

DFromInt(n) == DNorm(BigFromInt(n), 0, FALSE)

DIsZero(x) == x.m = BigZero

\* x < y
DLess(x_, y_) ==
    \E x \in {x_}, y \in {y_} :
        IF DIsZero(y) THEN FALSE
        ELSE IF DIsZero(x) THEN TRUE
        ELSE IF x.e # y.e THEN x.e < y.e
        ELSE BigCmp(x.m, y.m) = -1

\* x + y
DAdd(x_, y_) ==
    CHOOSE r \in {IF DIsZero(x) THEN y
                  ELSE IF DIsZero(y) THEN x
                  ELSE LET lo == IF x.e < y.e THEN x.e ELSE y.e
                       IN  DNorm(BigAdd(BigShl(x.m, x.e - lo),
                                        BigShl(y.m, y.e - lo)), lo, FALSE) :
                  x \in {x_}, y \in {y_}} : TRUE

\* x - y for x >= y
DSub(x_, y_) ==
    CHOOSE r \in {IF DIsZero(y) THEN x
                  ELSE LET lo == IF x.e < y.e THEN x.e ELSE y.e
                       IN  DNorm(BigSub(BigShl(x.m, x.e - lo),
                                        BigShl(y.m, y.e - lo)), lo, FALSE) :
                  x \in {x_}, y \in {y_}} : TRUE

ExtraBits == 30

\* a * 2^e / d
DDivOf(a_, e, d) ==
    CHOOSE r \in {DNorm(BigDivSmall(a, d), e, DivRem(a, d, 1) # 0) :
                  a \in {a_}} : TRUE

\* x / d for a small positive integer d
DDivSmall(x_, d_) ==
    CHOOSE r \in {DDivOf(BigShl(x.m, ExtraBits), x.e - ExtraBits, d) :
                  x \in {x_}, d \in {d_}} : TRUE

\* the integer nearest to 100 * x, ties to even (x < 2^31 / 100)
Hundredths(x_) ==
    CHOOSE r \in {IF x.e >= 0
                  THEN BigToInt(BigShl(BigMulSmall(x.m, 100), x.e))
                  ELSE BigToInt(BigRoundShr(BigMulSmall(x.m, 100), -x.e, FALSE)) :
                  x \in {x_}} : TRUE

\* round(x, 2): the decimal with two places nearest to x, read back as a float
round2(x) == DDivSmall(DFromInt(Hundredths(x)), 100)


(***************************************************************************)
(* Text: the configuration of the program and the lines of a print file.   *)
(***************************************************************************)
\* the placeholder character U+2022 of the instruction templates
BULLET == "U+2022"

PRINTSTART ==
    <<"P", "R", "I", "N", "T", "_", "S", "T", "A", "R", "T", "\n">>

PRINTEND ==
    <<";", " ", "E", "X", "E", "C", "U", "T", "A", "B", "L", "E", "_", "B",
      "L", "O", "C", "K", "_", "E", "N", "D", "\n">>

LAYERCHANGE ==
    <<";", "L", "A", "Y", "E", "R", "_", "C", "H", "A", "N", "G", "E",
      "\n">>

IGNOREDLAYERS == 2

PRINTOFFCOMMENT ==
    <<";", " ", "P", "U", "S", "H", " ", "P", "R", "I", "N", "T", " ", "O",
      "F", "F", " ", "B", "E", "D", "\n">>

COOLINGTEMP == 30

Digit(d) ==
    IF d = 0 THEN "0" ELSE IF d = 1 THEN "1" ELSE IF d = 2 THEN "2"
    ELSE IF d = 3 THEN "3" ELSE IF d = 4 THEN "4" ELSE IF d = 5 THEN "5"
    ELSE IF d = 6 THEN "6" ELSE IF d = 7 THEN "7" ELSE IF d = 8 THEN "8"
    ELSE "9"

RECURSIVE int_str(_)
\* str(n) of an integer n >= 0
int_str(n) == IF n < 10 THEN <<Digit(n)>> ELSE int_str(n \div 10) \o <<Digit(n % 10)>>

COOLOFFNOZZLE ==
    <<"M", "1", "0", "9", " ", "S">> \o int_str(COOLINGTEMP) \o
    <<";", " ", "W", "a", "i", "t", "s", " ", "f", "o", "r", " ", "t", "h",
      "e", " ", "n", "o", "z", "z", "l", "e", " ", "t", "o", " ", "c", "o",
      "o", "l", " ", "d", "o", "w", "n", "\n">>

HOMEXY ==
    <<"G", "2", "8", " ", "X", " ", "Y", ";", " ", "H", "o", "m", "e", "s",
      " ", "t", "h", "e", " ", "X", " ", "a", "n", "d", " ", "Y", " ", "a",
      "x", "i", "s", "\n">>

GOTOBACK ==
    <<"G", "1", " ", "X", BULLET, " ", "Y", "2", "6", "0", ";", " ", "G",
      "o", "e", "s", " ", "t", "o", " ", "t", "h", "e", " ", "b", "a", "c",
      "k", " ", "o", "f", " ", "t", "h", "e", " ", "p", "r", "i", "n", "t",
      "e", "r", "\n">>

GOTOBED ==
    <<"G", "2", "8", " ", "Z", ";", " ", "G", "o", "e", "s", " ", "t", "o",
      " ", "t", "h", "e", " ", "b", "e", "d", " ", "f", "o", "r", " ", "p",
      "r", "i", "n", "t", " ", "r", "e", "m", "o", "v", "a", "l", "\n">>

PUSHCOORDINATES ==
    <<"G", "1", " ", "Y", "2", "0", ";", " ", "P", "u", "s", "h", " ", "p",
      "r", "i", "n", "t", " ", "o", "f", "f", " ", "b", "e", "d", "\n">>

(***************************************************************************)
(* The lines a print file is made of in this model: the three markers, a   *)
(* move with a decimal X coordinate, and a comment that holds a decimal X  *)
(* coordinate but is no move.                                              *)
(***************************************************************************)
MOVE_X ==
    <<"G", "1", " ", "X", "1", "0", ".", "2", "5", " ", "Y", "3", ".", "0",
      "0", "\n">>

COMMENT_X ==
    <<";", " ", "X", "9", ".", "5", "0", "\n">>

OLD ==
    <<"o", "l", "d", "\n">>

LineAlphabet == {PRINTSTART, PRINTEND, LAYERCHANGE, MOVE_X, COMMENT_X}

MaxLen == 6

RECURSIVE SeqsUpTo(_, _)
SeqsUpTo(S, n) ==
    IF n = 0 THEN {<<>>}
    ELSE LET P == SeqsUpTo(S, n - 1)
         IN  P \cup {Append(q, x) : q \in {r \in P : Len(r) = n - 1}, x \in S}

(***************************************************************************)
(* str, str.replace, re.search and float.                                  *)
(***************************************************************************)
\* str(x) of a float x that is the nearest to a decimal with at most two
\* fractional digits (every value round(.., 2) and float("d.dd") return):
\* the shortest decimal that reads back as x
float_str(x) ==
    CHOOSE r \in {(LET f == h % 100
                   IN  int_str(h \div 100) \o <<".">> \o
                       (IF f % 10 = 0 THEN <<Digit(f \div 10)>>
                        ELSE <<Digit(f \div 10), Digit(f % 10)>>)) :
                  h \in {Hundredths(x)}} : TRUE

RECURSIVE replace(_, _, _)
\* s.replace(old, new) for a one-character old
replace(s, old, new) ==
    IF s = <<>> THEN <<>>
    ELSE (IF Head(s) = old THEN new ELSE <<Head(s)>>) \o replace(Tail(s), old, new)

IsDigit(c) == c \in {"0", "1", "2", "3", "4", "5", "6", "7", "8", "9"}

DigitValue(c) == CHOOSE d \in 0..9 : Digit(d) = c

RECURSIVE DigitRun(_, _)
\* the number of digits of s from position i on
DigitRun(s, i) ==
    IF i <= Len(s) /\ IsDigit(s[i]) THEN 1 + DigitRun(s, i + 1) ELSE 0

\* X\d+\.\d+ matches s at position i
MatchAt(s, i) ==
    /\ s[i] = "X"
    /\ LET a == DigitRun(s, i + 1)
       IN  /\ a >= 1
           /\ i + 1 + a <= Len(s)
           /\ s[i + 1 + a] = "."
           /\ DigitRun(s, i + 2 + a) >= 1

NoMatch == <<>>

\* re.search(r"X\d+\.\d+", s).group(), NoMatch for None
re_search(s) ==
    LET I == {i \in 1..Len(s) : MatchAt(s, i)}
    IN  IF I = {} THEN NoMatch
        ELSE LET i == CHOOSE k \in I : \A j \in I : k <= j
                 a == DigitRun(s, i + 1)
                 b == DigitRun(s, i + 2 + a)
             IN  SubSeq(s, i, i + 1 + a + b)

RECURSIVE DigitsValue(_)
DigitsValue(t) ==
    IF t = <<>> THEN 0
    ELSE 10 * DigitsValue(SubSeq(t, 1, Len(t) - 1)) + DigitValue(t[Len(t)])

Pow10(k) == IF k = 0 THEN 1 ELSE IF k = 1 THEN 10 ELSE IF k = 2 THEN 100
            ELSE IF k = 3 THEN 1000 ELSE 10000

\* float(t) for t of the form digits "." digits (at most four after the point)
to_float(t_) ==
    CHOOSE r \in {(LET a == DigitRun(t, 1)
                       b == Len(t) - a - 1
                   IN  DDivSmall(DFromInt(DigitsValue(SubSeq(t, 1, a) \o
                                                      SubSeq(t, a + 2, Len(t)))),
                                 Pow10(b))) :
                  t \in {t_}} : TRUE


(***************************************************************************)
(* Statistics.                                                             *)
(***************************************************************************)
\* the larger of x and y, x if they are equal
DMax(x_, y_) ==
    CHOOSE r \in {IF DLess(x, y) THEN y ELSE x : x \in {x_}, y \in {y_}} : TRUE

\* the smaller of x and y, x if they are equal
DMin(x_, y_) ==
    CHOOSE r \in {IF DLess(y, x) THEN y ELSE x : x \in {x_}, y \in {y_}} : TRUE

RECURSIVE py_max(_, _)
\* max of the first k elements of xs (k >= 1)
py_max(xs, k) == IF k = 1 THEN xs[1] ELSE DMax(py_max(xs, k - 1), xs[k])

RECURSIVE py_min(_, _)
\* min of the first k elements of xs (k >= 1)
py_min(xs, k) == IF k = 1 THEN xs[1] ELSE DMin(py_min(xs, k - 1), xs[k])

RECURSIVE py_sum(_, _)
\* sum of the first k elements of xs, added from left to right
py_sum(xs, k) == IF k = 0 THEN DZero ELSE DAdd(py_sum(xs, k - 1), xs[k])

\* for a non-empty x_coordinates
get_width(xs) == round2(DSub(py_max(xs, Len(xs)), py_min(xs, Len(xs))))

\* for a non-empty x_coordinates
get_mean(xs) == round2(DDivSmall(py_sum(xs, Len(xs)), Len(xs)))

(***************************************************************************)
(* The state of one call create_output(read_file(i), i).                   *)
(***************************************************************************)
VARIABLES
    inputFile,      \* the lines of the file in inputs/
    outputFile,     \* the file of the derived name in outputs/: [exists, data]
    lines,          \* the list read_file returns, shared by create_output
                    \* and get_x_coordinates
    pc,             \* the position in the program
    error,          \* the exception that ended the call, "none" if none
    x_coordinates,  \* the samples
    currentLayer,   \* the layer counter of get_x_coordinates
    scanned,        \* the number of lines the for loop of get_x_coordinates took
    printWidth,
    meanCoordinate,
    sampleTrace     \* history: for each sample, the place of its line in
                    \* inputFile and the layer counter when it was taken

vars == <<inputFile, outputFile, lines, pc, error, x_coordinates, currentLayer,
          scanned, printWidth, meanCoordinate, sampleTrace>>

Unbound == [m |-> <<>>, e |-> 0]

NoFile == [exists |-> FALSE, data |-> <<>>]

\* before the call, for an input file of at most n lines
InitUpTo(n) ==
    /\ inputFile \in SeqsUpTo(LineAlphabet, n)
    /\ outputFile \in {NoFile, [exists |-> TRUE, data |-> <<OLD>>]}
    /\ lines = <<>>
    /\ pc = "read_file"
    /\ error = "none"
    /\ x_coordinates = <<>>
    /\ currentLayer = 0
    /\ scanned = 0
    /\ printWidth = Unbound
    /\ meanCoordinate = Unbound
    /\ sampleTrace = <<>>

Init == InitUpTo(MaxLen)

\* read_file: file.readlines()
read_file ==
    /\ pc = "read_file"
    /\ lines' = inputFile
    /\ pc' = "open"
    /\ UNCHANGED <<inputFile, outputFile, error, x_coordinates, currentLayer,
                   scanned, printWidth, meanCoordinate, sampleTrace>>

\* create_output: open(.., 'w') creates the file or truncates it
open_output ==
    /\ pc = "open"
    /\ outputFile' = [exists |-> TRUE, data |-> <<>>]
    /\ pc' = "while"
    /\ UNCHANGED <<inputFile, lines, error, x_coordinates, currentLayer,
                   scanned, printWidth, meanCoordinate, sampleTrace>>

\* get_x_coordinates: one turn of "while lines[0] != PRINTSTART: lines.pop(0)"
pop_line ==
    /\ pc = "while"
    /\ lines # <<>>
    /\ lines[1] # PRINTSTART
    /\ lines' = Tail(lines)
    /\ UNCHANGED <<inputFile, outputFile, pc, error, x_coordinates,
                   currentLayer, scanned, printWidth, meanCoordinate,
                   sampleTrace>>

\* a variant of pop_fail: the loop is guarded against the empty list and the
\* scan goes on over no line at all
pop_fail_silent ==
    /\ pc = "while"
    /\ lines = <<>>
    /\ currentLayer' = 1
    /\ pc' = "for"
    /\ UNCHANGED <<inputFile, outputFile, lines, error, x_coordinates,
                   scanned, printWidth, meanCoordinate, sampleTrace>>

\* get_x_coordinates: lines[0] of the empty list raises IndexError, which
\* leaves the with block of create_output and closes the file
pop_fail ==
    /\ pc = "while"
    /\ lines = <<>>
    /\ pc' = "failed"
    /\ error' = "IndexError"
    /\ UNCHANGED <<inputFile, outputFile, lines, x_coordinates, currentLayer,
                   scanned, printWidth, meanCoordinate, sampleTrace>>

\* get_x_coordinates: the while loop ends at the start sentinel
start_scan ==
    /\ pc = "while"
    /\ lines # <<>>
    /\ lines[1] = PRINTSTART
    /\ currentLayer' = 1
    /\ pc' = "for"
    /\ UNCHANGED <<inputFile, outputFile, lines, error, x_coordinates,
                   scanned, printWidth, meanCoordinate, sampleTrace>>

\* the layer counter after the line
LayerAfter(line, layer) == IF line = LAYERCHANGE THEN layer + 1 ELSE layer

\* a variant of Acquired: the threshold is compared with >= instead of >
Acquired_offByOne(line, layer) == line[1] = "G" /\ layer >= IGNOREDLAYERS

\* the condition under which a line is searched for a coordinate
Acquired(line, layer) == line[1] = "G" /\ layer > IGNOREDLAYERS

\* a variant of AtPrintEnd: the sentinel is compared without its terminator
AtPrintEnd_noTerminator(line) == line = SubSeq(PRINTEND, 1, Len(PRINTEND) - 1)

\* the for loop reaches the end sentinel
AtPrintEnd(line) == line = PRINTEND

\* get_x_coordinates: one turn of "for line in lines"
scan_line ==
    /\ pc = "for"
    /\ scanned < Len(lines)
    /\ LET line  == lines[scanned + 1]
           layer == LayerAfter(line, currentLayer)
           x     == re_search(line)
       IN  IF AtPrintEnd(line)
           THEN /\ pc' = "stats"
                /\ UNCHANGED <<currentLayer, scanned, x_coordinates, sampleTrace>>
           ELSE /\ pc' = pc
                /\ currentLayer' = layer
                /\ scanned' = scanned + 1
                /\ IF Acquired(line, layer) /\ x # NoMatch
                   THEN /\ x_coordinates' =
                               Append(x_coordinates, to_float(Tail(x)))
                        /\ sampleTrace' =
                               Append(sampleTrace,
                                      [at    |-> Len(inputFile) - Len(lines)
                                                 + scanned + 1,
                                       layer |-> layer])
                   ELSE UNCHANGED <<x_coordinates, sampleTrace>>
    /\ UNCHANGED <<inputFile, outputFile, lines, error, printWidth,
                   meanCoordinate>>

\* get_x_coordinates: the for loop runs out of lines
scan_end ==
    /\ pc = "for"
    /\ scanned = Len(lines)
    /\ pc' = "stats"
    /\ UNCHANGED <<inputFile, outputFile, lines, error, x_coordinates,
                   currentLayer, scanned, printWidth, meanCoordinate,
                   sampleTrace>>

\* create_output: get_width, then get_mean
statistics ==
    /\ pc = "stats"
    /\ x_coordinates # <<>>
    /\ printWidth' = get_width(x_coordinates)
    /\ meanCoordinate' = get_mean(x_coordinates)
    /\ pc' = "write"
    /\ UNCHANGED <<inputFile, outputFile, lines, error, x_coordinates,
                   currentLayer, scanned, sampleTrace>>

\* create_output: max() of the empty list in get_width raises ValueError,
\* which leaves the with block and closes the file
statistics_fail ==
    /\ pc = "stats"
    /\ x_coordinates = <<>>
    /\ pc' = "failed"
    /\ error' = "ValueError"
    /\ UNCHANGED <<inputFile, outputFile, lines, x_coordinates, currentLayer,
                   scanned, printWidth, meanCoordinate, sampleTrace>>

\* the six lines written after the end sentinel
Injected(mean) ==
    <<PRINTOFFCOMMENT,
      COOLOFFNOZZLE,
      HOMEXY,
      replace(GOTOBACK, BULLET, float_str(mean)),
      GOTOBED,
      replace(PUSHCOORDINATES, BULLET, float_str(mean))>>

\* a variant of WrittenFor: the sentinel is matched by its first character
WrittenFor_looseMatch(line, mean) ==
    (IF line[1] = PRINTEND[1] THEN <<line>> \o Injected(mean) ELSE <<>>) \o <<line>>

\* what one turn of the writing loop writes for a line
WrittenFor(line, mean) ==
    (IF line = PRINTEND THEN <<line>> \o Injected(mean) ELSE <<>>) \o <<line>>

RECURSIVE Written(_, _)
\* what "for line in lines" of create_output writes
Written(ls, mean) ==
    IF ls = <<>> THEN <<>>
    ELSE WrittenFor(Head(ls), mean) \o Written(Tail(ls), mean)

\* create_output: the writing loop, and the end of the with block
write_output ==
    /\ pc = "write"
    /\ outputFile' = [exists |-> TRUE,
                      data   |-> outputFile.data \o Written(lines, meanCoordinate)]
    /\ pc' = "done"
    /\ UNCHANGED <<inputFile, lines, error, x_coordinates, currentLayer,
                   scanned, printWidth, meanCoordinate, sampleTrace>>

Next ==
    \/ read_file
    \/ open_output
    \/ pop_line
    \/ pop_fail
    \/ start_scan
    \/ scan_line
    \/ scan_end
    \/ statistics
    \/ statistics_fail
    \/ write_output

Spec == Init /\ [][Next]_vars

MaxFairLen == 5

FairInit == InitUpTo(MaxFairLen)

\* the call runs on until it returns or raises: the program is sequential,
\* a step that can be taken is taken
FairSpec == FairInit /\ [][Next]_vars /\ WF_vars(Next)


(***************************************************************************)
(* Statistics on their own: any non-empty sample list, computed, given     *)
(* back in another order, computed again.                                  *)
(***************************************************************************)
SampleTexts ==
    {<<"0", ".", "0", "1">>, <<"0", ".", "0", "2">>, <<"1", "0", ".", "2", "5">>}

MaxSamples == 4

RECURSIVE Reordered(_, _, _)
\* the first k elements of xs taken in the order p
Reordered(xs, p, k) ==
    IF k = 0 THEN <<>> ELSE Append(Reordered(xs, p, k - 1), xs[p[k]])

StatInit ==
    /\ inputFile = <<>>
    /\ outputFile = NoFile
    /\ lines = <<>>
    /\ pc = "stats"
    /\ error = "none"
    /\ x_coordinates \in
           SeqsUpTo({to_float(t) : t \in SampleTexts}, MaxSamples) \ {<<>>}
    /\ currentLayer = 0
    /\ scanned = 0
    /\ printWidth = Unbound
    /\ meanCoordinate = Unbound
    /\ sampleTrace = <<>>

\* the caller hands the same samples over again, in any order
reorder_samples ==
    /\ pc = "write"
    /\ \E p \in Permutations(1..Len(x_coordinates)) :
           x_coordinates' = Reordered(x_coordinates, p, Len(x_coordinates))
    /\ pc' = "stats"
    /\ UNCHANGED <<inputFile, outputFile, lines, error, currentLayer, scanned,
                   printWidth, meanCoordinate, sampleTrace>>

StatNext ==
    \/ statistics
    \/ reorder_samples

StatSpec == StatInit /\ [][StatNext]_vars

(***************************************************************************)
(* The input as the claims speak of it.                                    *)
(***************************************************************************)
Range(s) == {s[i] : i \in 1..Len(s)}

Count(s, x) == Cardinality({i \in 1..Len(s) : s[i] = x})

HasStart == PRINTSTART \in Range(inputFile)

HasEnd == PRINTEND \in Range(inputFile)

\* the place of the first start sentinel (past the end if there is none)
FirstStart ==
    IF HasStart
    THEN CHOOSE i \in 1..Len(inputFile) :
             /\ inputFile[i] = PRINTSTART
             /\ \A j \in 1..(i - 1) : inputFile[j] # PRINTSTART
    ELSE Len(inputFile) + 1

\* the place of the first end sentinel of the whole file (past the end if none)
FirstEnd ==
    IF HasEnd
    THEN CHOOSE i \in 1..Len(inputFile) :
             /\ inputFile[i] = PRINTEND
             /\ \A j \in 1..(i - 1) : inputFile[j] # PRINTEND
    ELSE Len(inputFile) + 1

\* the place of the first end sentinel after the start sentinel
FirstEndAfterStart ==
    LET E == {i \in FirstStart..Len(inputFile) : inputFile[i] = PRINTEND}
    IN  IF E = {} THEN Len(inputFile) + 1
        ELSE CHOOSE i \in E : \A j \in E : i <= j

\* the layer-change markers from the start sentinel up to line i
MarkersUpTo(i) ==
    Cardinality({j \in FirstStart..i : inputFile[j] = LAYERCHANGE})

\* a move that holds a decimal X coordinate
IsCoordinateLine(line) == line[1] = "G" /\ re_search(line) # NoMatch

\* line i is a coordinate line of the print, past the ignored layers
EligibleAt(i) ==
    /\ FirstStart < i
    /\ i < FirstEndAfterStart
    /\ IsCoordinateLine(inputFile[i])
    /\ MarkersUpTo(i) >= IGNOREDLAYERS

HasEligible == \E i \in 1..Len(inputFile) : EligibleAt(i)

WellFormed == HasStart /\ HasEnd /\ HasEligible

\* s without the lines of the set D
RECURSIVE Without(_, _)
Without(s, D) ==
    IF s = <<>> THEN <<>>
    ELSE (IF Head(s) \in D THEN <<>> ELSE <<Head(s)>>) \o Without(Tail(s), D)

\* t occurs in s
Contains(s, t) ==
    \E i \in 1..(Len(s) - Len(t) + 1) : SubSeq(s, i, i + Len(t) - 1) = t


(***************************************************************************)
(* Claims.                                                                 *)
(***************************************************************************)
\* the call has returned normally for an input that holds the start
\* sentinel, the end sentinel and at least one eligible coordinate line
DoneWellFormed == pc = "done" /\ WellFormed

\* C1: round trip of create_output: for a well-formed input (lines before
\* the start sentinel allowed) the written output without the injected lines
\* is exactly the input line sequence.
C1_RoundTrip ==
    DoneWellFormed =>
        Without(outputFile.data, Range(Injected(meanCoordinate))) = inputFile

\* C2: for a well-formed input the number of lines written equals the number
\* of lines read plus 6 times the number of lines equal to the end sentinel.
C2_OutputLength ==
    DoneWellFormed =>
        Len(outputFile.data) = Len(inputFile) + 6 * Count(inputFile, PRINTEND)

\* the place in the output where the i-th written line would stand if every
\* end sentinel before it were written once and followed by six lines
PlaceOf(i) == i + 6 * Count(SubSeq(lines, 1, i - 1), PRINTEND)

\* C3: at every end sentinel of the lines written, the output holds the
\* sentinel once and unmodified, then exactly the six injected lines in their
\* fixed order, then the line that followed the sentinel in the input, or
\* nothing more if the sentinel was the last line.
C3_BlockAfterEverySentinel ==
    pc = "done" =>
        \A i \in 1..Len(lines) :
            lines[i] = PRINTEND =>
                LET q == PlaceOf(i)
                    d == outputFile.data
                IN  /\ q + 6 <= Len(d)
                    /\ d[q] = PRINTEND
                    /\ SubSeq(d, q + 1, q + 6) = Injected(meanCoordinate)
                    /\ IF i < Len(lines)
                       THEN q + 7 <= Len(d) /\ d[q + 7] = lines[i + 1]
                       ELSE Len(d) = q + 6

\* C4: in every injected block the move-to-back line and the push line both
\* hold the same numeric string, the str of get_mean of the samples.
C4_BothLinesHoldTheMean ==
    pc = "done" =>
        \A r \in 1..Len(outputFile.data) :
            outputFile.data[r] = PRINTOFFCOMMENT =>
                LET mean == float_str(get_mean(x_coordinates))
                IN  /\ r + 5 <= Len(outputFile.data)
                    /\ Contains(outputFile.data[r + 3], mean)
                    /\ Contains(outputFile.data[r + 5], mean)

\* C7: when the call has failed (no eligible sample, or an earlier step
\* failed) the output location is as it was before the call: there is no
\* output file, or the file that was there still holds what it held.
C7_FailureLeavesOutputUntouched ==
    pc = "failed" =>
        \/ ~outputFile.exists
        \/ outputFile.data = <<OLD>>


\* the place in inputFile of the last line the scan has taken
ScannedUpTo == Len(inputFile) - Len(lines) + scanned

\* C5, as stated: a coordinate line that occurs before the
\* (IGNOREDLAYERS+1)-th layer-change marker counted from the start sentinel
\* is never appended to the samples.
C5_BeforeMarkerAfterThreshold ==
    \A k \in 1..Len(sampleTrace) :
        MarkersUpTo(sampleTrace[k].at) >= IGNOREDLAYERS + 1

\* C5, amended: a coordinate line that occurs before the IGNOREDLAYERS-th
\* layer-change marker counted from the start sentinel (before the second
\* marker) is never appended to the samples.
C5_LayerFiltering ==
    \A k \in 1..Len(sampleTrace) :
        MarkersUpTo(sampleTrace[k].at) >= IGNOREDLAYERS

\* C5: the scan has passed a coordinate line that stands before the second
\* marker without sampling it, and has sampled a later one
C5_Witness ==
    /\ x_coordinates # <<>>
    /\ \E i \in (FirstStart + 1)..ScannedUpTo :
           /\ IsCoordinateLine(inputFile[i])
           /\ MarkersUpTo(i) < IGNOREDLAYERS
           /\ \A k \in 1..Len(sampleTrace) : sampleTrace[k].at # i

\* the samples are those of the lines sampleTrace names, in line order, each
\* taken from the start sentinel on and before line `limit`, with a layer
\* counter (1 plus the markers seen since the start sentinel) above
\* IGNOREDLAYERS
SampledWithin(limit) ==
    /\ Len(sampleTrace) = Len(x_coordinates)
    /\ \A k \in 1..Len(sampleTrace) :
           LET t == sampleTrace[k]
           IN  /\ FirstStart <= t.at
               /\ t.at < limit
               /\ t.layer = 1 + MarkersUpTo(t.at)
               /\ t.layer > IGNOREDLAYERS
               /\ x_coordinates[k] = to_float(Tail(re_search(inputFile[t.at])))
    /\ \A k \in 1..(Len(sampleTrace) - 1) :
           sampleTrace[k].at < sampleTrace[k + 1].at

\* C6, as stated: at every step every sample comes from a line at or after
\* the first start sentinel and strictly before the first end sentinel of
\* the input, taken with a layer counter above IGNOREDLAYERS, in line order.
C6_BeforeFirstEndOfInput == SampledWithin(FirstEnd)

\* C6, amended: at every step every sample comes from a line at or after the
\* first start sentinel and strictly before the first end sentinel that
\* follows it, taken with a layer counter above IGNOREDLAYERS, in line order;
\* no line at or after that end sentinel is sampled, whatever follows it.
C6_SamplingRegion == SampledWithin(FirstEndAfterStart)

\* C6: the scan has stopped at an end sentinel with a sample taken, and a
\* coordinate line or another end sentinel follows that sentinel
C6_Witness ==
    /\ pc = "stats"
    /\ x_coordinates # <<>>
    /\ \E i \in (FirstEndAfterStart + 1)..Len(inputFile) :
           inputFile[i] = PRINTEND \/ IsCoordinateLine(inputFile[i])

\* C8: without a start sentinel get_x_coordinates ends in a failure after
\* finitely many steps; it never reaches its scan and never returns.
C8_NoStartFails ==
    ~HasStart =>
        /\ <>(pc = "failed" /\ error = "IndexError")
        /\ [](pc \in {"read_file", "open", "while", "failed"})

\* C8: a non-empty input without start sentinel has been popped to the last
\* line and the call has failed
C8_Witness ==
    /\ ~HasStart
    /\ inputFile # <<>>
    /\ lines = <<>>
    /\ pc = "failed"
    /\ error = "IndexError"

\* C9: the statistics do not depend on the order of the samples and are
\* repeatable: computed again on the same samples in any order, get_width and
\* get_mean return what they returned before, and leave the samples as they
\* are.
C9_OrderIndependent ==
    [][(pc = "stats" /\ printWidth # Unbound) =>
           /\ printWidth' = printWidth
           /\ meanCoordinate' = meanCoordinate
           /\ x_coordinates' = x_coordinates]_vars

\* C10: with a start sentinel and an eligible coordinate line but no end
\* sentinel, the scan runs to the last line, the call returns without any
\* failure, and what it writes holds lines of the input only, no injected
\* line.
C10_NoEndMarker ==
    (HasStart /\ ~HasEnd /\ HasEligible) =>
        /\ <>(pc = "done" /\ error = "none")
        /\ [](/\ pc # "failed"
              /\ pc \in {"stats", "write", "done"} => scanned = Len(lines)
              /\ pc = "done" =>
                     /\ outputFile.data # <<>>
                     /\ Range(outputFile.data) \subseteq Range(inputFile)
                     /\ Range(outputFile.data)
                            \cap Range(Injected(meanCoordinate)) = {})

\* C10: such a call has returned
C10_Witness ==
    /\ HasStart /\ ~HasEnd /\ HasEligible
    /\ pc = "done"
    /\ Len(lines) >= 2
    /\ scanned = Len(lines)

====
